---- MODULE Spec2Model ----
(***************************************************************************)
(* Model of pointer-analysis.py: the benchmark harness that validates its  *)
(* environment, enumerates the benchmark directories, runs the egglog and  *)
(* egglog-baseline binaries on each of them, and reports the timings.      *)
(*                                                                         *)
(* Strings that are compared for order (benchmark names) are sequences of  *)
(* character codes; times are integer clock ticks; a speedup is an exact   *)
(* fraction <<numerator, denominator>>.                                    *)
(***************************************************************************)
EXTENDS FiniteSets, Integers, Sequences, TLC

\* ------------------------------------------------------------------ bounds
\* largest number of entries the benchmark root holds
MaxListing == 2

\* ------------------------------------------------------- program constants
\* result.stderr[:200]
ExcerptLen == 200

\* ------------------------------------------------------------- environment
\* directory entries that may be found under the benchmark root:
\* "a", "ab", "b" are directories, "c" is a regular file
DirNames == {<<1>>, <<1, 2>>, <<2>>}
FileNames == {<<3>>}
EntryNames == DirNames \cup FileNames

\* what a child writes to its standard error: nothing, or a text longer than
\* the excerpt
LongText == [i \in 1..(ExcerptLen + 1) |-> 7]
StderrTexts == {<< >>, LongText}

\* return codes of a child that exits by itself
ReturnCodes == {0, 1}

\* readings of time.time(), in ticks: the reading before the launch is the
\* origin of the scale (only differences are used); the reading after the
\* child has exited may be lower, the wall clock may be set back in between
StartReadings == {1}
EndReadings == {0, 1, 3}

\* Python's None; a defined value v is <<v>>
None == << >>
Some(v) == <<v>>
Val(o) == o[1]

VARIABLES
    fs,             \* the filesystem: root kind, which paths exist, root entries
    pc,             \* position of main / run_benchmark
    exited,         \* the process has terminated
    exit_status,    \* its exit status, meaningful once exited
    listdir_called, \* os.listdir has been attempted
    listed,         \* what os.listdir returned
    benchmark_dirs,
    idx,            \* number of benchmark_dirs the for loop has finished
    benchmark_name,
    egglog_time,
    baseline_time,
    results,
    start_time,
    inflight,       \* child processes that were started and not yet reaped
    out,            \* everything printed so far
    invocations,    \* every subprocess.run call so far, with its outcome
    last,           \* the run_benchmark call in progress or last finished:
                    \* its binary_name, outcome, return code, what a failed
                    \* child had written to stderr, the lines it printed
    main_speedups,  \* the speedups main printed, one per results entry
    summary,        \* what print_summary printed, None before
    chart           \* what create_bar_chart plotted, None before

vars == <<fs, pc, exited, exit_status, listdir_called, listed, benchmark_dirs,
          idx, benchmark_name, egglog_time, baseline_time, results,
          start_time, inflight, out, invocations, last, main_speedups,
          summary, chart>>

\* ----------------------------------------------------------------- helpers
Min(a, b) == IF a < b THEN a ELSE b
Abs(a) == IF a < 0 THEN 0 - a ELSE a

RECURSIVE GCD(_, _)
GCD(a, b) == IF b = 0 THEN a ELSE GCD(b, a % b)

RECURSIVE Sum(_)
Sum(s) == IF s = << >> THEN 0 ELSE Head(s) + Sum(Tail(s))

\* a printed line: its kind, the binary_name and the benchmark it names
Msg(kind, binary, name) == [kind |-> kind, binary |-> binary, name |-> name]
NoBinary == ""
NoName == << >>

\* str.__lt__: lexicographic order by code point, a proper prefix first
StrLess(a, b) ==
    \E k \in 1..(Min(Len(a), Len(b)) + 1) :
        /\ \A j \in 1..(k - 1) : a[j] = b[j]
        /\ \/ k = Len(a) + 1 /\ k <= Len(b)
           \/ k <= Len(a) /\ k <= Len(b) /\ a[k] < b[k]

\* insert x into the ascending list s, after the elements not greater
RECURSIVE Insert(_, _)
Insert(x, s) ==
    IF s = << >> THEN <<x>>
    ELSE IF StrLess(x, Head(s)) THEN <<x>> \o s
    ELSE <<Head(s)>> \o Insert(x, Tail(s))

RECURSIVE SortFrom(_, _)
SortFrom(s, acc) ==
    IF s = << >> THEN acc ELSE SortFrom(Tail(s), Insert(Head(s), acc))

\* a list left in listing order
Unsorted(s) == s

\* list.sort() on a list of str
Sort(s) == SortFrom(s, << >>)

\* os.path.isdir(os.path.join(benchmark_root, d))
IsDir(d) == d \in DirNames

\* [d for d in os.listdir(root) if os.path.isdir(...)] on the listing l
FilterDirs(l) == SelectSeq(l, IsDir)

\* the orders in which os.listdir may return the entries S
Listings(S) ==
    {l \in [1..Cardinality(S) -> S] :
        \A i, j \in 1..Cardinality(S) : i # j => l[i] # l[j]}

\* never true
NeverEmpty(dirs) == FALSE

\* not benchmark_dirs
NoDirs(dirs) == dirs = << >>

\* "if egglog_time and baseline_time": a time of 0.0 counts as no result
BothTruthy(e, b) == e # None /\ b # None /\ Val(e) # 0 /\ Val(b) # 0

\* egglog_time is not None and baseline_time is not None
BothSucceeded(e, b) == e # None /\ b # None

\* always true
AlwaysReport(r) == TRUE

\* if results['benchmarks']
HasResults(r) == r.benchmarks # << >>

\* float('inf'), and the fractions
Inf == <<1, 0>>
Zero == <<0, 1>>
Fraction(n, d) ==
    IF n = 0 THEN Zero ELSE <<n \div GCD(Abs(n), d), d \div GCD(Abs(n), d)>>

\* the ratio taken the wrong way round
SpeedupSwapped(baseline, egglog) ==
    IF baseline > 0 THEN Fraction(egglog, baseline) ELSE Inf

\* baseline_time / egglog_time if egglog_time > 0 else float('inf')
Speedup(baseline, egglog) ==
    IF egglog > 0 THEN Fraction(baseline, egglog) ELSE Inf

\* the chart's ratio taken the wrong way round
ChartSpeedupSwapped(baseline, egglog) ==
    IF baseline > 0 THEN Fraction(egglog, baseline) ELSE Zero

\* baseline_times[i] / egglog_times[i] if egglog_times[i] > 0 else 0
ChartSpeedup(baseline, egglog) ==
    IF egglog > 0 THEN Fraction(baseline, egglog) ELSE Zero

\* result.stderr of subprocess.run: the captured text with stderr=PIPE,
\* None with stderr=DEVNULL
CapturedStderr(stderr_target, written) ==
    IF stderr_target = "PIPE" THEN Some(written) ELSE None

\* stderr_target = subprocess.DEVNULL
StderrTarget(redirect_stderr) == "DEVNULL"

\* result.stderr[:200]
Excerpt(text) == SubSeq(text, 1, Min(ExcerptLen, Len(text)))

\* the timeout reported like any other exception
GenericMessage(binary_name) == Msg("error", binary_name, NoName)

\* print(f"    {binary_name} timed out (>1 hour)")
TimeoutMessage(binary_name) == Msg("timed_out", binary_name, NoName)

\* a child that is not waited for
LeaveChild(children, child) == children

\* subprocess.run returns or raises only after the child was waited for
\* (after a timeout: killed, then waited for)
Reap(children, child) == children \ {child}

\* the run_benchmark call at this position of main
BinaryName == IF pc \in {"call_egglog", "wait_egglog"}
              THEN "egglog" ELSE "egglog-baseline"
RedirectStderr == BinaryName = "egglog-baseline"

NoCall == [binary |-> NoBinary, kind |-> "none", rc |-> 0, wrote |-> << >>,
           excerpt |-> None, printed |-> << >>]
EmptyResults == [benchmarks |-> << >>, egglog_times |-> << >>,
                 baseline_times |-> << >>]

\* ----------------------------------------------------------------- initial
Init ==
    /\ fs \in [root : {"missing", "unreadable", "dir"},
               egglog_binary : BOOLEAN,
               egglog_baseline_binary : BOOLEAN,
               pointer_analysis_file : BOOLEAN,
               entries : {S \in SUBSET EntryNames : Cardinality(S) <= MaxListing}]
    /\ pc = "check_root"
    /\ exited = FALSE
    /\ exit_status = 0
    /\ listdir_called = FALSE
    /\ listed = << >>
    /\ benchmark_dirs = << >>
    /\ idx = 0
    /\ benchmark_name = NoName
    /\ egglog_time = None
    /\ baseline_time = None
    /\ results = EmptyResults
    /\ start_time = 0
    /\ inflight = {}
    /\ out = << >>
    /\ invocations = << >>
    /\ last = NoCall
    /\ main_speedups = << >>
    /\ summary = None
    /\ chart = None

\* print(...); sys.exit(1)
Fatal(kind) ==
    /\ out' = Append(out, Msg(kind, NoBinary, NoName))
    /\ exited' = TRUE
    /\ exit_status' = 1
    /\ pc' = "exit"

\* an existence check of main: on failure the message and exit 1
Check(here, exists, kind, next) ==
    /\ pc = here
    /\ IF ~exists
       THEN Fatal(kind)
       ELSE /\ pc' = next
            /\ UNCHANGED <<out, exited, exit_status>>
    /\ UNCHANGED <<fs, listdir_called, listed, benchmark_dirs, idx,
                   benchmark_name, egglog_time, baseline_time, results,
                   start_time, inflight, invocations, last, main_speedups,
                   summary, chart>>

CheckBenchmarkRoot ==
    Check("check_root", fs.root # "missing", "root_not_found", "check_egglog")

CheckEgglogBinary ==
    Check("check_egglog", fs.egglog_binary, "egglog_not_found",
          "check_baseline")

CheckBaselineBinary ==
    Check("check_baseline", fs.egglog_baseline_binary, "baseline_not_found",
          "check_file")

CheckPointerAnalysisFile ==
    Check("check_file", fs.pointer_analysis_file, "file_not_found",
          "enumerate")

\* the try block around os.listdir, the filter and the sort
Enumerate ==
    /\ pc = "enumerate"
    /\ listdir_called' = TRUE
    /\ IF fs.root # "dir"
       THEN /\ Fatal("read_error")
            /\ UNCHANGED <<listed, benchmark_dirs>>
       ELSE /\ \E l \in Listings(fs.entries) :
                  /\ listed' = l
                  /\ benchmark_dirs' = Sort(FilterDirs(l))
            /\ pc' = "check_empty"
            /\ UNCHANGED <<out, exited, exit_status>>
    /\ UNCHANGED <<fs, idx, benchmark_name, egglog_time, baseline_time,
                   results, start_time, inflight, invocations, last,
                   main_speedups, summary, chart>>

\* the empty check, the "Found n benchmark directories" lines and the
\* creation of results
CheckEmpty ==
    /\ pc = "check_empty"
    /\ IF NoDirs(benchmark_dirs)
       THEN /\ Fatal("no_dirs")
            /\ UNCHANGED <<results, idx>>
       ELSE /\ out' = Append(out, Msg("found", NoBinary, NoName))
                      \o [i \in 1..Len(benchmark_dirs) |->
                             Msg("listed", NoBinary, benchmark_dirs[i])]
            /\ results' = EmptyResults
            /\ idx' = 0
            /\ pc' = "loop"
            /\ UNCHANGED <<exited, exit_status>>
    /\ UNCHANGED <<fs, listdir_called, listed, benchmark_dirs, benchmark_name,
                   egglog_time, baseline_time, start_time, inflight,
                   invocations, last, main_speedups, summary, chart>>

\* for benchmark_name in benchmark_dirs: the next iteration begins
LoopNext ==
    /\ pc = "loop"
    /\ idx < Len(benchmark_dirs)
    /\ benchmark_name' = benchmark_dirs[idx + 1]
    /\ out' = Append(out, Msg("running_benchmark", NoBinary,
                              benchmark_dirs[idx + 1]))
    /\ egglog_time' = None
    /\ baseline_time' = None
    /\ pc' = "call_egglog"
    /\ UNCHANGED <<fs, exited, exit_status, listdir_called, listed,
                   benchmark_dirs, idx, results, start_time, inflight,
                   invocations, last, main_speedups, summary, chart>>

\* run_benchmark returns value to its call site in main; its locals are gone
Return(value) ==
    /\ start_time' = 0
    /\ IF pc \in {"call_egglog", "wait_egglog"}
       THEN /\ egglog_time' = value
            /\ pc' = "call_baseline"
            /\ UNCHANGED baseline_time
       ELSE /\ baseline_time' = value
            /\ pc' = "store"
            /\ UNCHANGED egglog_time

\* the outcome of the newest invocation is recorded
Finish(kind) ==
    invocations' = [invocations EXCEPT ![Len(invocations)].kind = kind]

\* run_benchmark up to the point where subprocess.run has started the child
RunBenchmarkLaunch ==
    /\ pc \in {"call_egglog", "call_baseline"}
    /\ out' = Append(out, Msg("running", BinaryName, NoName))
    /\ \E t \in StartReadings : start_time' = t
    /\ inflight' = inflight \cup {<<benchmark_name, BinaryName>>}
    /\ invocations' = Append(invocations,
           [name |-> benchmark_name, binary |-> BinaryName,
            kind |-> "running"])
    /\ last' = [NoCall EXCEPT !.binary = BinaryName,
                              !.printed = <<Msg("running", BinaryName, NoName)>>]
    /\ pc' = IF pc = "call_egglog" THEN "wait_egglog" ELSE "wait_baseline"
    /\ UNCHANGED <<fs, exited, exit_status, listdir_called, listed,
                   benchmark_dirs, idx, benchmark_name, egglog_time,
                   baseline_time, results, main_speedups, summary, chart>>

\* subprocess.run raises before a child exists (the binary cannot be
\* executed): except Exception
RunBenchmarkError ==
    /\ pc \in {"call_egglog", "call_baseline"}
    /\ out' = out \o <<Msg("running", BinaryName, NoName),
                       Msg("error", BinaryName, NoName)>>
    /\ invocations' = Append(invocations,
           [name |-> benchmark_name, binary |-> BinaryName,
            kind |-> "exception"])
    /\ last' = [NoCall EXCEPT !.binary = BinaryName,
                              !.kind = "exception",
                              !.printed = <<Msg("running", BinaryName, NoName),
                                            Msg("error", BinaryName, NoName)>>]
    /\ Return(None)
    /\ UNCHANGED <<fs, exited, exit_status, listdir_called, listed,
                   benchmark_dirs, idx, benchmark_name, results, inflight,
                   main_speedups, summary, chart>>

\* what run_benchmark prints once the child has exited with returncode rc
\* having written the text written to its standard error
ExitLines(binary_name, redirect_stderr, rc, written) ==
    LET stderr == CapturedStderr(StderrTarget(redirect_stderr), written)
    IN  IF rc = 0
        THEN <<Msg("completed", binary_name, NoName)>>
        ELSE IF ~redirect_stderr /\ stderr # None /\ Val(stderr) # << >>
        THEN <<Msg("failed_exit_code", binary_name, NoName),
               Msg("stderr_excerpt", binary_name, NoName)>>
        ELSE <<Msg("failed_exit_code", binary_name, NoName)>>

\* the text shown by the "Error: ..." line, None when the line is not printed
ExitExcerpt(redirect_stderr, rc, written) ==
    LET stderr == CapturedStderr(StderrTarget(redirect_stderr), written)
    IN  IF rc # 0 /\ ~redirect_stderr /\ stderr # None /\ Val(stderr) # << >>
        THEN Some(Excerpt(Val(stderr)))
        ELSE None

\* the child exits within the timeout: subprocess.run returns
RunBenchmarkExit ==
    /\ pc \in {"wait_egglog", "wait_baseline"}
    /\ \E rc \in ReturnCodes, written \in StderrTexts, end_time \in EndReadings :
          LET execution_time == end_time - start_time
              lines == ExitLines(BinaryName, RedirectStderr, rc, written)
          IN  /\ out' = out \o lines
              /\ last' = [last EXCEPT
                            !.kind = IF rc = 0 THEN "ok" ELSE "nonzero",
                            !.rc = rc,
                            !.wrote = IF rc = 0 THEN << >> ELSE written,
                            !.excerpt = ExitExcerpt(RedirectStderr, rc, written),
                            !.printed = last.printed \o lines]
              /\ Finish(IF rc = 0 THEN "ok" ELSE "nonzero")
              /\ Return(IF rc = 0 THEN Some(execution_time) ELSE None)
    /\ inflight' = Reap(inflight, <<benchmark_name, BinaryName>>)
    /\ UNCHANGED <<fs, exited, exit_status, listdir_called, listed,
                   benchmark_dirs, idx, benchmark_name, results,
                   main_speedups, summary, chart>>

\* the timeout is left uncaught: the traceback ends the process
RunBenchmarkTimeoutUncaught ==
    /\ pc \in {"wait_egglog", "wait_baseline"}
    /\ inflight' = Reap(inflight, <<benchmark_name, BinaryName>>)
    /\ Finish("timeout")
    /\ last' = [last EXCEPT !.kind = "timeout"]
    /\ exited' = TRUE
    /\ exit_status' = 1
    /\ pc' = "exit"
    /\ UNCHANGED <<fs, listdir_called, listed, benchmark_dirs, idx,
                   benchmark_name, egglog_time, baseline_time, results,
                   start_time, out, main_speedups, summary, chart>>

\* the child runs for more than 3600 seconds: subprocess.run kills it, waits
\* for it and raises TimeoutExpired; except subprocess.TimeoutExpired
RunBenchmarkTimeout ==
    /\ pc \in {"wait_egglog", "wait_baseline"}
    /\ inflight' = Reap(inflight, <<benchmark_name, BinaryName>>)
    /\ out' = Append(out, TimeoutMessage(BinaryName))
    /\ last' = [last EXCEPT !.kind = "timeout",
                            !.printed = Append(last.printed,
                                               TimeoutMessage(BinaryName))]
    /\ Finish("timeout")
    /\ Return(None)
    /\ UNCHANGED <<fs, exited, exit_status, listdir_called, listed,
                   benchmark_dirs, idx, benchmark_name, results,
                   main_speedups, summary, chart>>

\* "Store results if both succeeded", the result lines and the separator;
\* the iteration ends
StoreResults ==
    /\ pc = "store"
    /\ IF BothSucceeded(egglog_time, baseline_time)
       THEN /\ results' =
                 [benchmarks |-> Append(results.benchmarks, benchmark_name),
                  egglog_times |-> Append(results.egglog_times,
                                          Val(egglog_time)),
                  baseline_times |-> Append(results.baseline_times,
                                            Val(baseline_time))]
            /\ main_speedups' = Append(main_speedups,
                   Speedup(Val(baseline_time), Val(egglog_time)))
            /\ out' = out \o <<Msg("results_for", NoBinary, benchmark_name),
                               Msg("separator", NoBinary, NoName)>>
       ELSE /\ out' = Append(out, Msg("separator", NoBinary, NoName))
            /\ UNCHANGED <<results, main_speedups>>
    /\ idx' = idx + 1
    /\ pc' = "loop"
    /\ UNCHANGED <<fs, exited, exit_status, listdir_called, listed,
                   benchmark_dirs, benchmark_name, egglog_time, baseline_time,
                   start_time, inflight, invocations, last, summary, chart>>

\* after the loop: "Print summary and create visualization", or the message;
\* in the else branch main returns and the interpreter exits with status 0
Report ==
    /\ pc = "loop"
    /\ idx = Len(benchmark_dirs)
    /\ IF HasResults(results)
       THEN /\ pc' = "print_summary"
            /\ UNCHANGED <<out, exited, exit_status>>
       ELSE /\ out' = Append(out, Msg("no_successful_runs", NoBinary, NoName))
            /\ exited' = TRUE
            /\ exit_status' = 0
            /\ pc' = "exit"
    /\ UNCHANGED <<fs, listdir_called, listed, benchmark_dirs, idx,
                   benchmark_name, egglog_time, baseline_time, results,
                   start_time, inflight, invocations, last, main_speedups,
                   summary, chart>>

PrintSummary ==
    /\ pc = "print_summary"
    /\ LET total_egglog == Sum(results.egglog_times)
           total_baseline == Sum(results.baseline_times)
       IN  summary' = Some(
             [completed |-> Len(results.benchmarks),
              total_egglog |-> total_egglog,
              total_baseline |-> total_baseline,
              overall_speedup |-> Speedup(total_baseline, total_egglog),
              benchmarks |-> results.benchmarks,
              speedups |-> [i \in 1..Len(results.benchmarks) |->
                  Speedup(results.baseline_times[i], results.egglog_times[i])]])
    /\ out' = Append(out, Msg("summary", NoBinary, NoName))
    /\ pc' = "create_bar_chart"
    /\ UNCHANGED <<fs, exited, exit_status, listdir_called, listed,
                   benchmark_dirs, idx, benchmark_name, egglog_time,
                   baseline_time, results, start_time, inflight, invocations,
                   last, main_speedups, chart>>

\* create_bar_chart; main then returns and the interpreter exits with
\* status 0
CreateBarChart ==
    /\ pc = "create_bar_chart"
    /\ IF ~HasResults(results)
       THEN UNCHANGED <<chart, out>>
       ELSE /\ chart' = Some(
                 [labels |-> results.benchmarks,
                  egglog_times |-> results.egglog_times,
                  baseline_times |-> results.baseline_times,
                  speedups |-> [i \in 1..Len(results.benchmarks) |->
                      ChartSpeedup(results.baseline_times[i],
                                   results.egglog_times[i])]])
            /\ out' = Append(out, Msg("chart_saved", NoBinary, NoName))
    /\ exited' = TRUE
    /\ exit_status' = 0
    /\ pc' = "exit"
    /\ UNCHANGED <<fs, listdir_called, listed, benchmark_dirs, idx,
                   benchmark_name, egglog_time, baseline_time, results,
                   start_time, inflight, invocations, last, main_speedups,
                   summary>>

Next ==
    \/ CheckBenchmarkRoot
    \/ CheckEgglogBinary
    \/ CheckBaselineBinary
    \/ CheckPointerAnalysisFile
    \/ Enumerate
    \/ CheckEmpty
    \/ LoopNext
    \/ RunBenchmarkLaunch
    \/ RunBenchmarkError
    \/ RunBenchmarkExit
    \/ RunBenchmarkTimeout
    \/ StoreResults
    \/ Report
    \/ PrintSummary
    \/ CreateBarChart

Spec == Init /\ [][Next]_vars

\* ------------------------------------------------------------ observations
Range(s) == {s[i] : i \in DOMAIN s}
Printed(kind) == \E i \in DOMAIN out : out[i].kind = kind
CountPrinted(kind) == Cardinality({i \in DOMAIN out : out[i].kind = kind})
InCall(kind) == \E i \in DOMAIN last.printed : last.printed[i].kind = kind
Invoked(name, binary, kind) ==
    \E i \in DOMAIN invocations :
        invocations[i] = [name |-> name, binary |-> binary, kind |-> kind]
\* both invocations of the benchmark returned a time
BothOk(name) ==
    Invoked(name, "egglog", "ok") /\ Invoked(name, "egglog-baseline", "ok")
AnyBothOk == \E k \in DOMAIN benchmark_dirs : BothOk(benchmark_dirs[k])
\* the pre-flight validation has passed: the "Found ..." line is printed
PreflightPassed == Printed("found")
\* some pre-flight condition fails in this environment
PreflightFails ==
    \/ fs.root # "dir"
    \/ ~fs.egglog_binary
    \/ ~fs.egglog_baseline_binary
    \/ ~fs.pointer_analysis_file
    \/ fs.entries \cap DirNames = {}
PreflightPcs == {"check_root", "check_egglog", "check_baseline", "check_file",
                 "enumerate", "check_empty"}
WaitPcs == {"wait_egglog", "wait_baseline"}
Ascending(s) == \A i, j \in DOMAIN s : i < j => StrLess(s[i], s[j])
IsPrefix(s, t) == Len(s) <= Len(t) /\ \A i \in DOMAIN s : s[i] = t[i]
\* the invocations a complete run over dirs makes, in order
Expected(dirs) ==
    [i \in 1..(2 * Len(dirs)) |->
        [name |-> dirs[(i + 1) \div 2],
         binary |-> IF i % 2 = 1 THEN "egglog" ELSE "egglog-baseline"]]
Calls == [i \in DOMAIN invocations |->
            [name |-> invocations[i].name, binary |-> invocations[i].binary]]
\* s is the value of b / e, for e > 0
IsRatio(s, b, e) == s[2] > 0 /\ s[1] * e = s[2] * b

\* ------------------------------------------------------------------ claims

\* C1: a benchmark is in the results collection if and only if both its
\* egglog and its baseline invocation returned a time; the three lists of
\* results always have the same length, and the entry appended for a
\* benchmark holds its name and its two measured times at the same index.
C1_BothOrNeither ==
    /\ Len(results.egglog_times) = Len(results.benchmarks)
    /\ Len(results.baseline_times) = Len(results.benchmarks)
    /\ \A i, j \in DOMAIN results.benchmarks :
          i # j => results.benchmarks[i] # results.benchmarks[j]
    /\ \A i \in DOMAIN results.benchmarks : BothOk(results.benchmarks[i])
    /\ \A k \in 1..idx :
          BothOk(benchmark_dirs[k]) => benchmark_dirs[k] \in Range(results.benchmarks)
    /\ pc = "call_baseline" => (egglog_time # None <=> last.kind = "ok")
    /\ pc = "store" => (baseline_time # None <=> last.kind = "ok")
    /\ (pc = "loop" /\ idx > 0 /\ egglog_time # None /\ baseline_time # None) =>
          LET n == Len(results.benchmarks)
          IN  /\ n > 0
              /\ results.benchmarks[n] = benchmark_name
              /\ results.egglog_times[n] = Val(egglog_time)
              /\ results.baseline_times[n] = Val(baseline_time)

\* C1 witness: a finished run in which one benchmark failed in exactly one
\* invocation and another succeeded in both (one of them in zero ticks)
C1_Witness ==
    /\ exited /\ exit_status = 0
    /\ Len(benchmark_dirs) = 2
    /\ Invoked(benchmark_dirs[1], "egglog", "nonzero")
    /\ Invoked(benchmark_dirs[1], "egglog-baseline", "ok")
    /\ results.benchmarks = <<benchmark_dirs[2]>>
    /\ results.egglog_times = <<0>>
    /\ results.baseline_times = <<2>>

\* C2: when a pre-flight condition fails, no subprocess is ever launched,
\* nothing is appended to the results, no summary or chart is produced, main
\* never gets past the pre-flight checks and exits with status 1 only; with
\* the benchmark root missing os.listdir is never attempted.
C2_PreflightFatal ==
    /\ PreflightFails =>
          /\ pc \in PreflightPcs \cup {"exit"}
          /\ pc = "exit" => exited /\ exit_status = 1
          /\ invocations = << >>
          /\ inflight = {}
          /\ results = EmptyResults
          /\ summary = None
          /\ chart = None
    /\ fs.root = "missing" => ~listdir_called

\* C2 witness: the root holds no subdirectory (only a regular file), the
\* enumeration ran and main has exited with status 1
C2_Witness ==
    /\ fs.root = "dir"
    /\ fs.entries = FileNames
    /\ listdir_called
    /\ Printed("no_dirs")
    /\ exited /\ exit_status = 1

\* C3: whatever the order of the listing, benchmark_dirs holds exactly the
\* subdirectories in strictly ascending order, the invocations follow that
\* order, and the names in the results are strictly ascending, a subsequence
\* of benchmark_dirs.
C3_SortedOrder ==
    /\ Ascending(benchmark_dirs)
    /\ pc \notin {"check_root", "check_egglog", "check_baseline", "check_file",
                  "enumerate"} /\ listdir_called /\ fs.root = "dir" =>
          Range(benchmark_dirs) = fs.entries \cap DirNames
    /\ IsPrefix(Calls, Expected(benchmark_dirs))
    /\ Ascending(results.benchmarks)
    /\ \A i \in DOMAIN results.benchmarks :
          \E k \in 1..idx + 1 :
              k <= Len(benchmark_dirs) /\ benchmark_dirs[k] = results.benchmarks[i]

\* C3 witness: the listing came in descending order and both benchmarks are
\* in the results of the finished run
C3_Witness ==
    /\ Len(listed) = 2
    /\ StrLess(listed[2], listed[1])
    /\ Len(results.benchmarks) = 2
    /\ exited

\* C4: after the pre-flight validation the invocations made so far are, in
\* order and without repetition, a prefix of "egglog then egglog-baseline for
\* each benchmark directory"; the process ends only with status 0 and only
\* after all of them were made.
C4_EveryBenchmarkInvokedOnce ==
    PreflightPassed =>
        /\ IsPrefix(Calls, Expected(benchmark_dirs))
        /\ exited => /\ exit_status = 0
                     /\ Calls = Expected(benchmark_dirs)
                     /\ \A i \in DOMAIN invocations :
                           invocations[i].kind # "running"

\* C4 witness: a finished run of two benchmarks whose first invocation timed
\* out, with an exit code and a launch failure among the later ones
C4_Witness ==
    /\ exited
    /\ Len(invocations) = 4
    /\ invocations[1].kind = "timeout"
    /\ invocations[2].kind = "exception"
    /\ invocations[3].kind = "nonzero"
    /\ invocations[4].kind = "ok"

\* C5: when the egglog invocation exits with a non-zero code and has written
\* error output, run_benchmark returns no result and prints the exit code and
\* the first 200 characters of the error output; for egglog-baseline only the
\* exit code is printed.
C5_ExcerptForPrimary ==
    /\ (last.binary = "egglog" /\ last.kind = "nonzero" /\ last.wrote # << >>) =>
          /\ InCall("failed_exit_code")
          /\ InCall("stderr_excerpt")
          /\ last.excerpt = Some(Excerpt(last.wrote))
    /\ (last.binary = "egglog-baseline" /\ last.kind = "nonzero") =>
          /\ InCall("failed_exit_code")
          /\ ~InCall("stderr_excerpt")

\* C6: an invocation that times out returns no result and prints the timeout
\* line and neither the exit-code line nor the generic error line; the
\* timeout line is printed for timeouts only; the benchmark of a timed-out
\* invocation is not in the results.
C6_TimeoutMessage ==
    /\ last.kind = "timeout" =>
          /\ last.printed = <<Msg("running", last.binary, NoName),
                              Msg("timed_out", last.binary, NoName)>>
          /\ pc = "call_baseline" => egglog_time = None
          /\ pc = "store" => baseline_time = None
    /\ InCall("timed_out") => last.kind = "timeout"
    /\ CountPrinted("timed_out") =
          Cardinality({i \in DOMAIN invocations : invocations[i].kind = "timeout"})
    /\ CountPrinted("error") =
          Cardinality({i \in DOMAIN invocations : invocations[i].kind = "exception"})
    /\ CountPrinted("failed_exit_code") =
          Cardinality({i \in DOMAIN invocations : invocations[i].kind = "nonzero"})
    /\ \A i \in DOMAIN invocations :
          invocations[i].kind = "timeout" =>
              invocations[i].name \notin Range(results.benchmarks)

\* C6 witness: the baseline invocation timed out after egglog had succeeded,
\* and the iteration is over
C6_Witness ==
    /\ pc = "loop"
    /\ idx = 1
    /\ egglog_time # None
    /\ last.binary = "egglog-baseline"
    /\ last.kind = "timeout"
    /\ results = EmptyResults

\* C7: once the pre-flight validation has passed the process ends with status
\* 0; the summary and the chart are produced exactly when some benchmark had
\* both invocations succeed, and otherwise the "no successful runs" line is
\* printed and neither is produced.
C7_ReportOrMessage ==
    /\ (exited /\ PreflightPassed) =>
          /\ exit_status = 0
          /\ summary # None <=> AnyBothOk
          /\ chart # None <=> AnyBothOk
          /\ Printed("no_successful_runs") <=> ~AnyBothOk
    /\ Printed("no_successful_runs") =>
          summary = None /\ chart = None /\ ~Printed("summary")
                         /\ ~Printed("chart_saved")
    /\ chart # None => summary # None

\* C7 witness: every benchmark failed, the run ended with status 0 and the
\* message
C7_Witness ==
    /\ exited /\ exit_status = 0
    /\ Len(invocations) = 4
    /\ ~AnyBothOk
    /\ Printed("no_successful_runs")

\* C7 second case, reached as well: a run with a failed and a successful
\* benchmark ended with the summary and the chart
C7_WitnessReport ==
    /\ exited /\ exit_status = 0
    /\ Len(invocations) = 4
    /\ Len(results.benchmarks) = 1
    /\ summary # None /\ chart # None

\* C8 as written: the speedup main and print_summary report is baseline time
\* over egglog time, and it is infinite exactly when the egglog time is zero.
C8_InfiniteIffZero ==
    /\ \A i \in DOMAIN main_speedups :
          /\ main_speedups[i] = Inf <=> results.egglog_times[i] = 0
          /\ results.egglog_times[i] # 0 =>
                IsRatio(main_speedups[i], results.baseline_times[i],
                        results.egglog_times[i])
    /\ summary # None =>
          \A i \in DOMAIN results.benchmarks :
              Val(summary).speedups[i] = Inf <=> results.egglog_times[i] = 0

\* C8 amended: the speedup main and print_summary report is baseline time
\* over egglog time when the egglog time is positive, and it is infinite
\* exactly when the egglog time is not positive (zero, or negative after the
\* wall clock was set back).
C8_InfiniteIffNotPositive ==
    /\ Len(main_speedups) = Len(results.benchmarks)
    /\ \A i \in DOMAIN main_speedups :
          /\ main_speedups[i] = Inf <=> results.egglog_times[i] <= 0
          /\ results.egglog_times[i] > 0 =>
                IsRatio(main_speedups[i], results.baseline_times[i],
                        results.egglog_times[i])
    /\ summary # None =>
          /\ Len(Val(summary).speedups) = Len(results.benchmarks)
          /\ \A i \in DOMAIN results.benchmarks :
                /\ Val(summary).speedups[i] = Inf <=> results.egglog_times[i] <= 0
                /\ results.egglog_times[i] > 0 =>
                      IsRatio(Val(summary).speedups[i],
                              results.baseline_times[i],
                              results.egglog_times[i])

\* C8 witness: the summary of a run with a benchmark of 2 ticks against 2
\* ticks and a benchmark with an egglog time of zero
C8_Witness ==
    /\ summary # None
    /\ results.egglog_times = <<2, 0>>
    /\ results.baseline_times = <<2, 2>>
    /\ main_speedups = <<(<<1, 1>>), Inf>>
    /\ Val(summary).speedups = <<(<<1, 1>>), Inf>>

\* C9: at most one child process is in flight, and only while run_benchmark
\* waits for it; every earlier invocation has finished.
C9_OneChildInFlight ==
    /\ Cardinality(inflight) <= 1
    /\ pc \in WaitPcs => inflight = {<<benchmark_name, BinaryName>>}
    /\ pc \notin WaitPcs => inflight = {}
    /\ \A i \in DOMAIN invocations :
          invocations[i].kind = "running" =>
              i = Len(invocations) /\ pc \in WaitPcs

\* C9 witness: the baseline child of the second benchmark is in flight after
\* an earlier invocation had timed out
C9_Witness ==
    /\ pc = "wait_baseline"
    /\ idx = 1
    /\ Len(invocations) = 4
    /\ invocations[1].kind = "timeout"
    /\ inflight = {<<benchmark_dirs[2], "egglog-baseline">>}

\* C10 as written: the speedup plotted for a benchmark equals the speedup
\* printed for it by main and by print_summary, also for an egglog time of
\* zero.
C10_PlottedEqualsPrinted ==
    chart # None =>
        \A i \in DOMAIN results.benchmarks :
            /\ Val(chart).speedups[i] = main_speedups[i]
            /\ Val(chart).speedups[i] = Val(summary).speedups[i]

\* C10 amended: the speedup plotted for a benchmark equals the speedup
\* printed for it by main and by print_summary when its egglog time is
\* positive; when its egglog time is not positive the chart plots 0 while
\* main and print_summary print an infinite speedup.
C10_PlottedEqualsPrintedIfPositive ==
    chart # None =>
        /\ summary # None
        /\ Val(chart).labels = results.benchmarks
        /\ Len(Val(chart).speedups) = Len(results.benchmarks)
        /\ \A i \in DOMAIN results.benchmarks :
              IF results.egglog_times[i] > 0
              THEN /\ Val(chart).speedups[i] = main_speedups[i]
                   /\ Val(chart).speedups[i] = Val(summary).speedups[i]
                   /\ IsRatio(Val(chart).speedups[i], results.baseline_times[i],
                              results.egglog_times[i])
              ELSE /\ Val(chart).speedups[i] = Zero
                   /\ main_speedups[i] = Inf
                   /\ Val(summary).speedups[i] = Inf

\* C10 witness: a chart with one bar for a positive egglog time and one for
\* an egglog time of zero
C10_Witness ==
    /\ chart # None
    /\ results.egglog_times = <<2, 0>>
    /\ results.baseline_times = <<2, 2>>
    /\ Val(chart).speedups = <<(<<1, 1>>), Zero>>

====
